---- MODULE Spec2Model ----
(***************************************************************************)
(* A model of the obsidian-headings-in-explorer plugin (src/main.ts):      *)
(* the cursor locator, the heading index builder with its pattern matcher, *)
(* the explorer redraw, the change watcher, the master toggle and the      *)
(* Highlight Location request.                                             *)
(*                                                                         *)
(* JavaScript runs the plugin on one thread: a step of the model is what   *)
(* runs between two suspensions on something pending (a timer, the read of *)
(* a file, the save of the settings).                                      *)
(***************************************************************************)
EXTENDS Integers, Sequences, FiniteSets, TLC

(***************************************************************************)
(* Bounds of the model.                                                    *)
(***************************************************************************)
\* longest heading array handed to the cursor locator
MaxLen == 3
\* greatest line number of an entry handed to the cursor locator
MaxLine == 3
\* most pieces of work suspended at once
MaxTasks == 2
\* most lines of a file's text
MaxLines == 2
\* most structural headings in a file's cache entry
MaxHeadings == 2
\* most patterns in settings.regexArray
MaxPatterns == 2
\* most Highlight Location timers pending at once
MaxHighlights == 2
\* most pattern fields the settings tab shows at once
MaxFields == 2

(***************************************************************************)
(* Values.                                                                 *)
(***************************************************************************)
\* JavaScript's undefined, where a string is expected
Undefined == "<undefined>"
\* JavaScript's undefined, where a level is expected
NoLevel == 0
\* JavaScript's NaN, where a number of pixels is expected
NotANumber == -1

\* the result of findClosestLineOnOrAbove when it returns null; an entry is
\* returned as its 1-based position in the array (the code returns the
\* reference headingArray[mid], not a copy)
NoEntry == 0

\* closestLine before findClosestLineOnOrAbove has been called
NotCalled == -1

(***************************************************************************)
(* Cursor locator: findClosestLineOnOrAbove, src/main.ts 134-157.          *)
(***************************************************************************)
RECURSIVE BinarySearchMutant(_, _, _, _, _)
\* the loop with the window narrowed the wrong way round
BinarySearchMutant(headingArray, target, start, end, bestMatch) ==
    IF start > end
    THEN bestMatch
    ELSE LET mid == (start + end) \div 2
             currentLine == headingArray[mid + 1].line
         IN  IF currentLine = target
             THEN mid + 1
             ELSE IF currentLine < target
                  THEN BinarySearchMutant(headingArray, target, start, mid - 1, mid + 1)
                  ELSE BinarySearchMutant(headingArray, target, mid + 1, end, bestMatch)

RECURSIVE BinarySearch(_, _, _, _, _)
\* the while loop of lines 142-154; start, end and mid are the code's 0-based
\* indices, bestMatch the 1-based position of the best entry so far
BinarySearch(headingArray, target, start, end, bestMatch) ==
    IF start > end
    THEN bestMatch
    ELSE LET mid == (start + end) \div 2
             currentLine == headingArray[mid + 1].line
         IN  IF currentLine = target
             THEN mid + 1
             ELSE IF currentLine < target
                  THEN BinarySearch(headingArray, target, mid + 1, end, mid + 1)
                  ELSE BinarySearch(headingArray, target, start, mid - 1, bestMatch)

findClosestLineOnOrAboveMutant(headingArray, target) ==
    IF Len(headingArray) = 0
    THEN NoEntry
    ELSE BinarySearchMutant(headingArray, target, 0, Len(headingArray) - 1, NoEntry)

findClosestLineOnOrAbove(headingArray, target) ==
    IF Len(headingArray) = 0
    THEN NoEntry
    ELSE BinarySearch(headingArray, target, 0, Len(headingArray) - 1, NoEntry)

(***************************************************************************)
(* The regular expressions of the model: what new RegExp(pattern) and      *)
(* line.match(regex) do on the patterns and lines below.                   *)
(***************************************************************************)
\* DEFAULT_SETTINGS.regexArray[0].pattern: a line that is bold as a whole
PatternBold == "^\\*\\*([^*]+)\\*\\*$"
\* the README's example: a line that starts with TODO:, captured as a whole
PatternTodoGroup == "^(TODO:.*)$"
\* the same line, without a capture group
PatternTodoPlain == "^TODO:.*$"
\* the pattern of a field just added in the settings tab: matches every line
PatternEmpty == ""
\* an unterminated group: new RegExp throws a SyntaxError
PatternMalformed == "("

LineBold == "**Bold**"
LineTodo == "TODO: x"
LinePlain == "plain"

Lines == {LineBold, LineTodo, LinePlain}

\* whether new RegExp(pattern) returns (it throws otherwise)
RegExpCompiles(pattern) == pattern # PatternMalformed

\* line.match(regex) for a regex without the g flag: null (found = FALSE), or
\* the array of the whole match followed by one element per capture group
RegExpMatch(pattern, line) ==
    CASE pattern = PatternBold /\ line = LineBold ->
             [found |-> TRUE, array |-> <<"**Bold**", "Bold">>]
      [] pattern = PatternTodoGroup /\ line = LineTodo ->
             [found |-> TRUE, array |-> <<"TODO: x", "TODO: x">>]
      [] pattern = PatternTodoPlain /\ line = LineTodo ->
             [found |-> TRUE, array |-> <<"TODO: x">>]
      [] pattern \in {PatternEmpty, Undefined} ->
             \* new RegExp(undefined) is new RegExp(""), which matches at 0
             [found |-> TRUE, array |-> <<"">>]
      [] OTHER -> [found |-> FALSE, array |-> <<>>]

\* array[i] of a JavaScript array: undefined past its end
JsIndex(array, i) == IF i + 1 <= Len(array) THEN array[i + 1] ELSE Undefined

(***************************************************************************)
(* Heading index builder: the pure parts of createHeadingsForFile,         *)
(* src/main.ts 218-285.                                                    *)
(***************************************************************************)
\* a HeadingEntry (lines 37-42); uiElement 0 is an entry without a node yet
HeadingEntry(text, level, line) ==
    [text |-> text, level |-> level, line |-> line, uiElement |-> 0]

\* hides a level when its flag is on
LevelHiddenMutant(level, s) == \E L \in 1..6 : level = L /\ s.show[L]

\* the condition of lines 226-231
LevelHidden(level, s) == \E L \in 1..6 : level = L /\ ~s.show[L]

RECURSIVE mappedHeadings(_, _)
\* the reduce of lines 225-246 over fileCache.headings
mappedHeadings(headings, s) ==
    IF headings = <<>>
    THEN <<>>
    ELSE LET heading == Head(headings)
             acc == mappedHeadings(Tail(headings), s)
         IN  IF LevelHidden(heading.level, s)
             THEN acc
             ELSE <<HeadingEntry(heading.heading, heading.level, heading.line)>> \o acc

\* the entry pushed for one match, lines 263-276
MatchedEntry(matches, regexSetting, index) ==
    IF Len(matches) < 1
    THEN HeadingEntry(JsIndex(matches, 0), regexSetting.level, index)
    ELSE HeadingEntry(JsIndex(matches, 1), regexSetting.level, index)

RECURSIVE matchLine(_, _, _)
\* the inner forEach of lines 260-278 for one line: threw when a pattern did
\* not compile, else the entries pushed for this line
matchLine(line, index, regexArray) ==
    IF regexArray = <<>>
    THEN [threw |-> FALSE, headings |-> <<>>]
    ELSE LET regexSetting == Head(regexArray)
         IN  IF ~RegExpCompiles(regexSetting.pattern)
             THEN [threw |-> TRUE, headings |-> <<>>]
             ELSE LET matches == RegExpMatch(regexSetting.pattern, line)
                      here == IF matches.found
                              THEN <<MatchedEntry(matches.array, regexSetting, index)>>
                              ELSE <<>>
                      rest == matchLine(line, index, Tail(regexArray))
                  IN  [threw |-> rest.threw,
                       headings |-> IF rest.threw THEN <<>> ELSE here \o rest.headings]

RECURSIVE matchLinesFrom(_, _, _)
\* the outer forEach of lines 259-279 from the line at 0-based index on
matchLinesFrom(fileLines, index, regexArray) ==
    IF index >= Len(fileLines)
    THEN [threw |-> FALSE, headings |-> <<>>]
    ELSE LET here == matchLine(fileLines[index + 1], index, regexArray)
         IN  IF here.threw
             THEN here
             ELSE LET rest == matchLinesFrom(fileLines, index + 1, regexArray)
                  IN  [threw |-> rest.threw,
                       headings |-> IF rest.threw THEN <<>>
                                    ELSE here.headings \o rest.headings]

\* matchedHeadings of lines 258-279
matchedHeadings(fileLines, regexArray) == matchLinesFrom(fileLines, 0, regexArray)

RECURSIVE insertByLineMutant(_, _)
\* e placed before the entries of its own line: a sort that is not stable
insertByLineMutant(sorted, e) ==
    IF sorted = <<>>
    THEN <<e>>
    ELSE IF Head(sorted).line < e.line
         THEN <<Head(sorted)>> \o insertByLineMutant(Tail(sorted), e)
         ELSE <<e>> \o sorted

RECURSIVE insertByLine(_, _)
\* e placed behind every entry whose line is not greater
insertByLine(sorted, e) ==
    IF sorted = <<>>
    THEN <<e>>
    ELSE IF Head(sorted).line <= e.line
         THEN <<Head(sorted)>> \o insertByLine(Tail(sorted), e)
         ELSE <<e>> \o sorted

RECURSIVE sortByLine(_)
\* array.sort((a, b) => a.line - b.line), lines 250 and 281: Array.prototype.sort
\* is stable
sortByLine(array) ==
    IF array = <<>>
    THEN <<>>
    ELSE insertByLine(sortByLine(SubSeq(array, 1, Len(array) - 1)), array[Len(array)])

(***************************************************************************)
(* State.                                                                  *)
(***************************************************************************)
VARIABLES
    \* cursor locator on its own: the arguments of a call and its result
    headingArray, target, closestLine,
    \* host: the files of the vault, in the order of getMarkdownFiles
    vault,
    \* host: metadataCache.getFileCache(file), by path
    metadataCache,
    \* host: the lines of each file, by path
    fileContent,
    \* host: whether a leaf with a file explorer view exists
    explorerOpen,
    \* host: the file explorer's fileItems, by path; the heading container of
    \* an item with the nodes attached to it, and the item's cached height
    fileItems,
    \* the heading nodes created so far that something still refers to
    nodes,
    \* host: the workspace's leaves with their view type, file and cursor line
    leaves,
    \* host: the leaf that has the focus, or NoLeaf
    activeLeaf,
    \* whether the layout has become ready, and with it timedRetry has run
    startup,
    \* whether the Highlight location button is in the explorer's header
    locateButton,
    \* plugin.settings
    settings,
    \* plugin.cachedHeadings, by file name
    cachedHeadings,
    \* plugin.lastActiveMarkdownLeaf: a leaf, or NoLeaf
    lastActiveMarkdownLeaf,
    \* what is suspended on something pending: change-watcher timers, reads of
    \* a file, saves of the settings, initialisations between two files
    tasks,
    \* the pending timers of Highlight Location with the seconds they have run
    highlightTimers,
    \* observation: what the step that led to this state did
    last,
    \* observation: the master flag is off, a recalculation that followed the
    \* switch has completed and the flag has not been switched on since
    switchedOff,
    \* the pattern fields the settings tab shows: for each the index into
    \* regexArray that its handlers captured (0-based)
    fields

vars == <<headingArray, target, closestLine, vault, metadataCache, fileContent,
          explorerOpen, fileItems, nodes, leaves, activeLeaf, startup, locateButton, settings,
          cachedHeadings, lastActiveMarkdownLeaf, tasks, highlightTimers, last,
          switchedOff, fields>>

locateVars == <<headingArray, target, closestLine>>

hostVars == <<vault, metadataCache, fileContent, explorerOpen, leaves, activeLeaf>>

\* everything of the plugin and of the tree
systemVars == <<vault, metadataCache, fileContent, explorerOpen, fileItems, nodes,
                leaves, activeLeaf, startup, locateButton, settings, cachedHeadings,
                lastActiveMarkdownLeaf, tasks, highlightTimers, last, switchedOff,
                fields>>

NoLeaf == 0

\* a TFile of the vault
File(path, name, extension) == [path |-> path, name |-> name, extension |-> extension]

NoFile == File("", "", "")

\* the names of the vault's files: the keys cachedHeadings can have
Names == {vault[i].name : i \in 1..Len(vault)}

Paths == {vault[i].path : i \in 1..Len(vault)}

\* vault.getMarkdownFiles(), line 167
getMarkdownFiles == SelectSeq(vault, LAMBDA f : f.extension = "md")

\* a value of cachedHeadings[name]: no such key, a key holding undefined, or
\* a key holding an array of entries
Absent == [state |-> "absent", array |-> <<>>]
StoredUndefined == [state |-> "undefined", array |-> <<>>]
Stored(array) == [state |-> "array", array |-> array]

\* a value of metadataCache: getFileCache returns null, or a cache with headings
NoFileCache == [cached |-> FALSE, headings |-> <<>>]
FileCache(headings) == [cached |-> TRUE, headings |-> headings]

\* an entry of fileCache.headings: heading.heading, heading.level and
\* heading.position.start.line
CachedHeading(heading, level, line) == [heading |-> heading, level |-> level, line |-> line]

\* a FileItem (lines 48-56) with its heading container, if it has one
FileItem(hasContainer, children, height, computed) ==
    [hasContainer |-> hasContainer, children |-> children,
     info |-> [height |-> height, computed |-> computed]]

\* a suspended piece of work; the fields a kind does not use are empty
Task(kind, file, mapped, idx, after) ==
    [kind |-> kind, file |-> file, mapped |-> mapped, idx |-> idx, after |-> after]

\* what a step did: the operation, the file it was about, how it ended,
\* whether a call of createClickableHeadings returned in it and with which
\* headings, and whether it asked the tree to reveal a file
Did(op, file, outcome) ==
    [op |-> op, file |-> file, outcome |-> outcome, drew |-> FALSE, given |-> <<>>,
     revealed |-> FALSE]

DidDraw(op, file, outcome, given) ==
    [op |-> op, file |-> file, outcome |-> outcome, drew |-> TRUE, given |-> given,
     revealed |-> FALSE]

RemoveAt(seq, i) == SubSeq(seq, 1, i - 1) \o SubSeq(seq, i + 1, Len(seq))

(***************************************************************************)
(* Explorer UI synchronizer: the tree and its heading nodes.               *)
(***************************************************************************)
\* parseInt(getComputedStyle(...)) || 10, line 398, with the style unset
MarginMultiplier == 10

RECURSIVE freshIds(_, _, _)
\* n node identities not in used, from the least on: document.createElement
\* returns a node that is none of the existing ones
freshIds(used, n, from) ==
    IF n = 0
    THEN <<>>
    ELSE IF from \in used
         THEN freshIds(used, n, from + 1)
         ELSE <<from>> \o freshIds(used, n - 1, from + 1)

\* the headingItem of lines 364-399 for one entry
HeadingItem(heading) ==
    [textContent |-> heading.text,
     marginLeft |-> IF heading.level = NoLevel
                    THEN NotANumber
                    ELSE (heading.level - 1) * MarginMultiplier,
     highlighted |-> FALSE]

\* clearExplorerHeight leaving the records as they are
clearExplorerHeightMutant(items) == items

\* clearExplorerHeight, lines 287-296: nothing when there is no explorer (the
\* rejection of getFileExplorerLeaf is nobody's to handle)
clearExplorerHeight(items) ==
    IF explorerOpen
    THEN [p \in DOMAIN items |->
             [items[p] EXCEPT !.info = [height |-> 0, computed |-> FALSE]]]
    ELSE items

\* clearHeadings, lines 337-348, with getHeadingContainer (325-335) making the
\* container of an item that has none
clearHeadings(items) ==
    [p \in DOMAIN items |-> [items[p] EXCEPT !.hasContainer = TRUE, !.children = <<>>]]

\* createClickableHeadings, lines 350-404: threw, or the tree, the nodes and
\* the headings (each with its uiElement set) it leaves
createClickableHeadings(file, headings, items, allNodes) ==
    IF Len(headings) = 0
    THEN [threw |-> FALSE, items |-> items, nodes |-> allNodes, headings |-> headings]
    ELSE IF ~explorerOpen \/ file.path \notin DOMAIN items
         THEN [threw |-> TRUE, items |-> items, nodes |-> allNodes, headings |-> headings]
         ELSE LET ids == freshIds(DOMAIN allNodes, Len(headings), 1)
                  made == [n \in {ids[i] : i \in 1..Len(ids)} |->
                              HeadingItem(headings[CHOOSE i \in 1..Len(ids) : ids[i] = n])]
              IN  [threw |-> FALSE,
                   items |-> [items EXCEPT ![file.path].hasContainer = TRUE,
                                           ![file.path].children = ids],
                   nodes |-> [n \in DOMAIN allNodes \cup DOMAIN made |->
                                 IF n \in DOMAIN made THEN made[n] ELSE allNodes[n]],
                   headings |-> [i \in 1..Len(headings) |->
                                    [headings[i] EXCEPT !.uiElement = ids[i]]]]

\* the nodes something still refers to: the children of a container, the
\* uiElement of an indexed entry, the node a highlight timer will unmark
LiveNodes(items, cache, timers) ==
    UNION {{items[p].children[i] : i \in 1..Len(items[p].children)} : p \in DOMAIN items}
    \cup UNION {{cache[n].array[i].uiElement : i \in 1..Len(cache[n].array)} : n \in DOMAIN cache}
    \cup {timers[i].node : i \in 1..Len(timers)}

\* allNodes without the nodes nothing refers to any more
Collect(allNodes, items, cache, timers) ==
    [n \in DOMAIN allNodes \cap LiveNodes(items, cache, timers) |-> allNodes[n]]

(***************************************************************************)
(* createHeadingsForFile, lines 218-285, in the two parts its one pending  *)
(* await (vault.read, line 255) cuts it into.                              *)
(***************************************************************************)
\* lines 219-253: no cache entry (returns undefined), the short circuit of an
\* empty regexArray (the sorted structural headings, still to be drawn), or
\* the structural headings kept while the file is read
BuildStart(file) ==
    LET fileCache == metadataCache[file.path]
    IN  IF ~fileCache.cached
        THEN [kind |-> "undefined", headings |-> <<>>]
        ELSE LET mapped == mappedHeadings(fileCache.headings, settings)
             IN  IF Len(settings.regexArray) = 0
                 THEN [kind |-> "draw", headings |-> sortByLine(mapped)]
                 ELSE [kind |-> "read", headings |-> mapped]

\* the merge without the structural headings kept across the read
BuildMergeMutant(file, mapped) ==
    LET matched == matchedHeadings(fileContent[file.path], settings.regexArray)
    IN  IF matched.threw
        THEN [threw |-> TRUE, headings |-> <<>>]
        ELSE [threw |-> FALSE, headings |-> sortByLine(matched.headings)]

\* lines 256-281 once the file is read: threw (a pattern did not compile), or
\* allHeadings, still to be drawn
BuildMerge(file, mapped) ==
    LET fileLines == fileContent[file.path]
        matched == matchedHeadings(fileLines, settings.regexArray)
    IN  IF matched.threw
        THEN [threw |-> TRUE, headings |-> <<>>]
        ELSE [threw |-> FALSE, headings |-> sortByLine(mapped \o matched.headings)]

(***************************************************************************)
(* Change watcher: onFileModified, lines 96-112.                           *)
(***************************************************************************)
\* the handler of a modify or rename event, lines 96-109: the tasks it leaves
onFileModified(file) ==
    IF ~settings.showHeadings
    THEN tasks
    ELSE IF file.extension = "md"
         THEN Append(tasks, Task("timer", file, <<>>, 0, ""))
         ELSE tasks

\* lines 105-106 once createHeadingsForFile has returned allHeadings, with the
\* call of createClickableHeadings (lines 251, 282) that precedes its return:
\* task i of the change watcher ends
WatcherDraws(i, file, allHeadings) ==
    LET drawn == createClickableHeadings(file, allHeadings, fileItems, nodes)
    IN  IF drawn.threw
        THEN /\ tasks' = RemoveAt(tasks, i)
             /\ last' = Did("rebuild", file, "threw")
             /\ UNCHANGED <<fileItems, nodes, cachedHeadings>>
        ELSE /\ tasks' = RemoveAt(tasks, i)
             /\ cachedHeadings' = [cachedHeadings EXCEPT ![file.name] = Stored(drawn.headings)]
             /\ fileItems' = clearExplorerHeight(drawn.items)
             /\ nodes' = Collect(drawn.nodes, fileItems', cachedHeadings', highlightTimers)
             /\ last' = DidDraw("rebuild", file, "ok", allHeadings)

\* a modify or rename event of the vault reaches the plugin
VaultEvent(kind, file) ==
    /\ kind \in {"modify", "rename"}
    /\ Len(onFileModified(file)) <= MaxTasks
    /\ tasks' = onFileModified(file)
    /\ last' = Did(kind, file, IF tasks' = tasks THEN "ignored" ELSE "scheduled")
    /\ UNCHANGED <<locateVars, fields, hostVars, startup, fileItems, nodes, locateButton, settings,
                   cachedHeadings, lastActiveMarkdownLeaf, highlightTimers, switchedOff>>

\* the timer of line 103 fires: createHeadingsForFile runs up to its read of
\* the file, or to its end when it does not read
TimerFires(i) ==
    /\ i \in 1..Len(tasks)
    /\ tasks[i].kind = "timer"
    /\ LET file == tasks[i].file
           start == BuildStart(file)
       IN  CASE start.kind = "undefined" ->
                    /\ tasks' = RemoveAt(tasks, i)
                    /\ cachedHeadings' = [cachedHeadings EXCEPT ![file.name] = StoredUndefined]
                    /\ fileItems' = clearExplorerHeight(fileItems)
                    /\ nodes' = Collect(nodes, fileItems', cachedHeadings', highlightTimers)
                    /\ last' = Did("rebuild", file, "undefined")
             [] start.kind = "draw" -> WatcherDraws(i, file, start.headings)
             [] start.kind = "read" ->
                    /\ tasks' = [tasks EXCEPT ![i] = Task("read", file, start.headings, 0, "")]
                    /\ last' = Did("rebuild", file, "reading")
                    /\ UNCHANGED <<fileItems, nodes, cachedHeadings>>
    /\ UNCHANGED <<locateVars, fields, hostVars, startup, locateButton, settings,
                   lastActiveMarkdownLeaf, highlightTimers, switchedOff>>

\* vault.read of line 255 returns to a rebuild of the change watcher
WatcherReadDone(i) ==
    /\ i \in 1..Len(tasks)
    /\ tasks[i].kind = "read"
    /\ LET file == tasks[i].file
           merged == BuildMerge(file, tasks[i].mapped)
       IN  IF merged.threw
           THEN /\ tasks' = RemoveAt(tasks, i)
                /\ last' = Did("rebuild", file, "threw")
                /\ UNCHANGED <<fileItems, nodes, cachedHeadings>>
           ELSE WatcherDraws(i, file, merged.headings)
    /\ UNCHANGED <<locateVars, fields, hostVars, startup, locateButton, settings,
                   lastActiveMarkdownLeaf, highlightTimers, switchedOff>>

(***************************************************************************)
(* Initialisation: init, lines 159-175, called by timedRetry (82),         *)
(* saveSettings (425) and recalculateHeadings (431).  The model lets other *)
(* steps run between two files of its loop, also where the code awaits     *)
(* nothing pending between them.                                           *)
(***************************************************************************)
\* a call of init up to its loop: with the display disabled it invalidates the
\* heights and returns; else an initialisation is under way, from the first
\* file on
initCall(after, pending, items) ==
    IF ~settings.showHeadings
    THEN [tasks |-> pending, items |-> clearExplorerHeight(items)]
    ELSE [tasks |-> Append(pending, Task("init", NoFile, <<>>, 1, after)), items |-> items]

\* setupLocateButton, lines 177-186: the button is there once an explorer is
setupLocateButton == locateButton \/ explorerOpen

\* onLayoutReady(timedRetry), lines 74-94.  init is an async function: its
\* call at line 82 returns a promise and throws nothing, whatever fails in it,
\* so the catch of lines 83-90 is not entered and no retry is scheduled
LayoutReady ==
    /\ startup = "loaded"
    /\ startup' = "ready"
    /\ lastActiveMarkdownLeaf' =
          IF activeLeaf # NoLeaf /\ leaves[activeLeaf].viewType = "markdown"
          THEN activeLeaf
          ELSE lastActiveMarkdownLeaf
    /\ locateButton' = setupLocateButton
    /\ LET called == initCall("", tasks, fileItems)
       IN  /\ tasks' = called.tasks
           /\ fileItems' = called.items
    /\ last' = Did("layoutReady", NoFile, "")
    /\ UNCHANGED <<locateVars, fields, hostVars, nodes, settings, cachedHeadings,
                   highlightTimers, switchedOff>>

\* the loop of init goes on behind file idx - 1: task i moves to the next file
\* or, behind the last one, invalidates the heights (line 174) and ends
InitGoesOn(i, idx, items, cache, allNodes, did) ==
    /\ tasks' = [tasks EXCEPT ![i] = Task("init", NoFile, <<>>, idx, tasks[i].after)]
    /\ fileItems' = items
    /\ cachedHeadings' = cache
    /\ nodes' = Collect(allNodes, items, cache, highlightTimers)
    /\ last' = did

\* lines 169-170 once createHeadingsForFile has built allHeadings for the file
\* of task i: drawn and stored, or the initialisation is abandoned
InitDraws(i, file, allHeadings) ==
    LET drawn == createClickableHeadings(file, allHeadings, fileItems, nodes)
    IN  IF drawn.threw
        THEN /\ tasks' = RemoveAt(tasks, i)
             /\ last' = Did("init", file, "threw")
             /\ UNCHANGED <<fileItems, nodes, cachedHeadings>>
        ELSE InitGoesOn(i, tasks[i].idx + 1, drawn.items,
                        [cachedHeadings EXCEPT ![file.name] = Stored(drawn.headings)],
                        drawn.nodes, DidDraw("init", file, "ok", allHeadings))

\* an initialisation takes its next file, or ends behind the last one
InitNext(i) ==
    /\ i \in 1..Len(tasks)
    /\ tasks[i].kind = "init"
    /\ IF tasks[i].idx > Len(getMarkdownFiles)
       THEN /\ tasks' = RemoveAt(tasks, i)
            /\ fileItems' = clearExplorerHeight(fileItems)
            /\ last' = Did("init", NoFile, "done")
            /\ UNCHANGED <<nodes, cachedHeadings>>
       ELSE LET file == getMarkdownFiles[tasks[i].idx]
                start == BuildStart(file)
            IN  CASE start.kind = "undefined" ->
                         InitGoesOn(i, tasks[i].idx + 1, fileItems,
                                    [cachedHeadings EXCEPT ![file.name] = StoredUndefined],
                                    nodes, Did("init", file, "undefined"))
                  [] start.kind = "draw" -> InitDraws(i, file, start.headings)
                  [] start.kind = "read" ->
                         /\ tasks' = [tasks EXCEPT ![i] =
                                         Task("initRead", file, start.headings,
                                              tasks[i].idx, tasks[i].after)]
                         /\ last' = Did("init", file, "reading")
                         /\ UNCHANGED <<fileItems, nodes, cachedHeadings>>
    /\ UNCHANGED <<locateVars, fields, hostVars, startup, locateButton, settings,
                   lastActiveMarkdownLeaf, highlightTimers, switchedOff>>

\* vault.read of line 255 returns to an initialisation
InitReadDone(i) ==
    /\ i \in 1..Len(tasks)
    /\ tasks[i].kind = "initRead"
    /\ LET file == tasks[i].file
           merged == BuildMerge(file, tasks[i].mapped)
       IN  IF merged.threw
           THEN /\ tasks' = RemoveAt(tasks, i)
                /\ last' = Did("init", file, "threw")
                /\ UNCHANGED <<fileItems, nodes, cachedHeadings>>
           ELSE InitDraws(i, file, merged.headings)
    /\ UNCHANGED <<locateVars, fields, hostVars, startup, locateButton, settings,
                   lastActiveMarkdownLeaf, highlightTimers, switchedOff>>

(***************************************************************************)
(* The master flag, the level flags and the recalculation: lines 123-131,  *)
(* 423-432, 450-519 and 538-548.                                           *)
(***************************************************************************)
\* the toggle-headings command (lines 126-130) or the Show headings toggle of
\* the settings tab (455-459): the flag changes and saveData is awaited
ToggleShowHeadings(source) ==
    /\ source \in {"command", "settingsTab"}
    /\ Len(tasks) < MaxTasks
    /\ settings' = [settings EXCEPT !.showHeadings = ~settings.showHeadings]
    /\ tasks' = Append(tasks, Task("save", NoFile, <<>>,
                                    IF settings.showHeadings THEN 1 ELSE 0, "recalc"))
    /\ switchedOff' = FALSE
    /\ last' = Did("toggle", NoFile, source)
    /\ UNCHANGED <<locateVars, fields, hostVars, startup, fileItems, nodes, locateButton,
                   cachedHeadings, lastActiveMarkdownLeaf, highlightTimers>>

\* a Show heading L toggle of the settings tab, lines 461-519
ToggleShowLevel(L) ==
    /\ L \in 1..6
    /\ Len(tasks) < MaxTasks
    /\ settings' = [settings EXCEPT !.show[L] = ~settings.show[L]]
    /\ tasks' = Append(tasks, Task("save", NoFile, <<>>, 0, ""))
    /\ last' = Did("level", NoFile, "")
    /\ UNCHANGED <<locateVars, fields, hostVars, startup, fileItems, nodes, locateButton,
                   cachedHeadings, lastActiveMarkdownLeaf, highlightTimers, switchedOff>>

\* the pattern fields display() makes, lines 532-534: one per element of
\* regexArray, with its index
displayedFields == [f \in 1..Len(settings.regexArray) |-> f - 1]

\* the settings tab is opened: display, lines 444-566
DisplaySettingsTab ==
    /\ fields # displayedFields
    /\ fields' = displayedFields
    /\ last' = Did("display", NoFile, "")
    /\ UNCHANGED <<locateVars, hostVars, startup, fileItems, nodes, locateButton, settings,
                   cachedHeadings, lastActiveMarkdownLeaf, tasks, highlightTimers,
                   switchedOff>>

\* the Add regex pattern button, lines 524-530: addRegexPatternField with its
\* defaults, which shows a field for the index regexArray.length and writes
\* nothing to regexArray; the button is there once display() has shown a field
\* for each element of regexArray
AddPatternField ==
    /\ Len(fields) >= Len(settings.regexArray)
    /\ Len(fields) < MaxFields
    /\ fields' = Append(fields, Len(settings.regexArray))
    /\ last' = Did("addField", NoFile, "")
    /\ UNCHANGED <<locateVars, hostVars, startup, fileItems, nodes, locateButton, settings,
                   cachedHeadings, lastActiveMarkdownLeaf, tasks, highlightTimers,
                   switchedOff>>

\* regexArray[index] = { ...regexArray[index], pattern: value } or the same
\* with level (lines 577, 586): an element that is not there yet is made of
\* the one property written
withProperty(regexArray, index, property, value) ==
    LET old == IF index < Len(regexArray)
               THEN regexArray[index + 1]
               ELSE [pattern |-> Undefined, level |-> NoLevel]
        new == IF property = "pattern"
               THEN [old EXCEPT !.pattern = value]
               ELSE [old EXCEPT !.level = value]
    IN  IF index < Len(regexArray)
        THEN [regexArray EXCEPT ![index + 1] = new]
        ELSE Append(regexArray, new)

\* the text of pattern field f is edited, lines 576-579
EditPatternText(f, value) ==
    /\ f \in 1..Len(fields)
    /\ fields[f] <= Len(settings.regexArray)
    /\ Len(withProperty(settings.regexArray, fields[f], "pattern", value)) <= MaxPatterns
    /\ Len(tasks) < MaxTasks
    /\ settings' = [settings EXCEPT !.regexArray =
                       withProperty(settings.regexArray, fields[f], "pattern", value)]
    /\ settings' # settings
    /\ tasks' = Append(tasks, Task("save", NoFile, <<>>, 0, ""))
    /\ last' = Did("editPattern", NoFile, "")
    /\ UNCHANGED <<locateVars, fields, hostVars, startup, fileItems, nodes, locateButton,
                   cachedHeadings, lastActiveMarkdownLeaf, highlightTimers, switchedOff>>

\* the level slider of pattern field f is moved, lines 582-589; its limits
\* are 1 and 7
MovePatternSlider(f, value) ==
    /\ f \in 1..Len(fields)
    /\ value \in 1..7
    /\ fields[f] <= Len(settings.regexArray)
    /\ Len(withProperty(settings.regexArray, fields[f], "level", value)) <= MaxPatterns
    /\ Len(tasks) < MaxTasks
    /\ settings' = [settings EXCEPT !.regexArray =
                       withProperty(settings.regexArray, fields[f], "level", value)]
    /\ settings' # settings
    /\ tasks' = Append(tasks, Task("save", NoFile, <<>>, 0, ""))
    /\ last' = Did("moveSlider", NoFile, "")
    /\ UNCHANGED <<locateVars, fields, hostVars, startup, fileItems, nodes, locateButton,
                   cachedHeadings, lastActiveMarkdownLeaf, highlightTimers, switchedOff>>

\* the Delete button of pattern field f, lines 591-597: the splice, then
\* saveSettings is awaited and the tab displayed anew
DeletePattern(f) ==
    /\ f \in 1..Len(fields)
    /\ Len(tasks) < MaxTasks
    /\ settings' = [settings EXCEPT !.regexArray =
                       IF fields[f] < Len(settings.regexArray)
                       THEN RemoveAt(settings.regexArray, fields[f] + 1)
                       ELSE settings.regexArray]
    /\ tasks' = Append(tasks, Task("save", NoFile, <<>>, 0, "display"))
    /\ last' = Did("deletePattern", NoFile, "")
    /\ UNCHANGED <<locateVars, fields, hostVars, startup, fileItems, nodes, locateButton,
                   cachedHeadings, lastActiveMarkdownLeaf, highlightTimers, switchedOff>>

\* recalculateHeadings, lines 428-432, behind the tasks pending: the index is
\* emptied, the containers are cleared (an explorer missing, clearHeadings
\* throws and init is not called) and init is called
recalculateHeadings(pending, items) ==
    IF explorerOpen
    THEN initCall("recalc", pending, clearHeadings(items))
    ELSE [tasks |-> pending, items |-> items]

\* saveData of line 424 returns: saveSettings calls init without awaiting it
\* and returns to its caller, which recalculates or is done
SaveDone(i) ==
    /\ i \in 1..Len(tasks)
    /\ tasks[i].kind = "save"
    /\ LET saved == initCall("", RemoveAt(tasks, i), fileItems)
           then == IF tasks[i].after = "recalc"
                   THEN recalculateHeadings(saved.tasks, saved.items)
                   ELSE saved
       IN  /\ tasks' = then.tasks
           /\ fileItems' = then.items
    /\ cachedHeadings' = IF tasks[i].after = "recalc"
                         THEN [n \in DOMAIN cachedHeadings |-> Absent]
                         ELSE cachedHeadings
    /\ nodes' = Collect(nodes, fileItems', cachedHeadings', highlightTimers)
    /\ locateButton' = setupLocateButton
    /\ switchedOff' = IF /\ tasks[i].after = "recalc"
                         /\ tasks[i].idx = 1
                         /\ ~settings.showHeadings
                         /\ explorerOpen
                      THEN TRUE
                      ELSE switchedOff
    /\ last' = Did("saved", NoFile, tasks[i].after)
    /\ fields' = IF tasks[i].after = "display" THEN displayedFields ELSE fields
    /\ UNCHANGED <<locateVars, hostVars, startup, settings, lastActiveMarkdownLeaf,
                   highlightTimers>>

\* the Recalculate headings button, lines 544-547
Recalculate ==
    /\ Len(tasks) < MaxTasks
    /\ LET then == recalculateHeadings(tasks, fileItems)
       IN  /\ tasks' = then.tasks
           /\ fileItems' = then.items
    /\ cachedHeadings' = [n \in DOMAIN cachedHeadings |-> Absent]
    /\ nodes' = Collect(nodes, fileItems', cachedHeadings', highlightTimers)
    /\ locateButton' = IF explorerOpen THEN setupLocateButton ELSE locateButton
    /\ last' = Did("recalculate", NoFile, "")
    /\ UNCHANGED <<locateVars, fields, hostVars, startup, settings, lastActiveMarkdownLeaf,
                   highlightTimers, switchedOff>>

(***************************************************************************)
(* Highlight Location: lines 114-121 and 188-216.  Time passes in seconds  *)
(* for the timers of line 212.                                             *)
(***************************************************************************)
\* the delay of line 214, 2000 ms, in seconds
HighlightSeconds == 2

\* a leaf of the workspace: its view's type, the file of the view (NoFile when
\* it has none) and the line of its editor's cursor
Leaf(viewType, file, cursor) == [viewType |-> viewType, file |-> file, cursor |-> cursor]

\* a timer of line 212 with the node whose class it will remove
HighlightTimer(node, elapsed) == [node |-> node, elapsed |-> elapsed]

\* the handler without its test of the view's type
ActiveLeafChangeMutant(leaf) ==
    /\ leaf \in {NoLeaf} \cup DOMAIN leaves
    /\ leaf # activeLeaf
    /\ activeLeaf' = leaf
    /\ lastActiveMarkdownLeaf' = leaf
    /\ last' = Did("activeLeafChange", NoFile, "")
    /\ UNCHANGED <<locateVars, fields, vault, metadataCache, fileContent, explorerOpen, leaves,
                   startup, fileItems, nodes, locateButton, settings, cachedHeadings,
                   tasks, highlightTimers, switchedOff>>

\* the active-leaf-change event, lines 116-120; leaf is NoLeaf for null
ActiveLeafChange(leaf) ==
    /\ leaf \in {NoLeaf} \cup DOMAIN leaves
    /\ leaf # activeLeaf
    /\ activeLeaf' = leaf
    /\ lastActiveMarkdownLeaf' =
          IF leaf # NoLeaf /\ leaves[leaf].viewType = "markdown"
          THEN leaf
          ELSE lastActiveMarkdownLeaf
    /\ last' = Did("activeLeafChange", NoFile, "")
    /\ UNCHANGED <<locateVars, fields, vault, metadataCache, fileContent, explorerOpen, leaves,
                   startup, fileItems, nodes, locateButton, settings, cachedHeadings,
                   tasks, highlightTimers, switchedOff>>

\* what a request did, with the reveal it asked of the tree
DidReveal(file, outcome) == [Did("highlight", file, outcome) EXCEPT !.revealed = TRUE]

\* the Highlight location button: highlightFileWithHeading, lines 188-216
HighlightRequest ==
    /\ locateButton
    /\ Len(highlightTimers) < MaxHighlights
    /\ IF lastActiveMarkdownLeaf = NoLeaf
       THEN /\ last' = Did("highlight", NoFile, "noLeaf")
            /\ UNCHANGED <<nodes, highlightTimers>>
       ELSE LET activeLeafView == leaves[lastActiveMarkdownLeaf]
                activeFile == activeLeafView.file
            IN  IF activeFile = NoFile
                THEN /\ last' = Did("highlight", NoFile, "noFile")
                     /\ UNCHANGED <<nodes, highlightTimers>>
                ELSE LET activeHeadings == cachedHeadings[activeFile.name]
                     IN  IF activeHeadings.state # "array"
                         THEN \* headingArray.length of undefined, line 136
                              /\ last' = DidReveal(activeFile, "threw")
                              /\ UNCHANGED <<nodes, highlightTimers>>
                         ELSE LET closest == findClosestLineOnOrAbove(
                                                 activeHeadings.array, activeLeafView.cursor)
                              IN  IF closest = NoEntry
                                  THEN /\ last' = DidReveal(activeFile, "noMatch")
                                       /\ UNCHANGED <<nodes, highlightTimers>>
                                  ELSE LET node == activeHeadings.array[closest].uiElement
                                       IN  /\ nodes' = [n \in DOMAIN nodes |->
                                                           IF n = node
                                                           THEN [nodes[n] EXCEPT !.highlighted = TRUE]
                                                           ELSE nodes[n]]
                                           /\ highlightTimers' =
                                                  Append(highlightTimers, HighlightTimer(node, 0))
                                           /\ last' = DidReveal(activeFile, "highlighted")
    /\ UNCHANGED <<locateVars, fields, hostVars, startup, fileItems, locateButton, settings,
                   cachedHeadings, lastActiveMarkdownLeaf, tasks, switchedOff>>

\* a timer of line 212 fires, 2 seconds after its request
HighlightTimeout(i) ==
    /\ i \in 1..Len(highlightTimers)
    /\ highlightTimers[i].elapsed = HighlightSeconds
    /\ highlightTimers' = RemoveAt(highlightTimers, i)
    /\ nodes' = Collect([n \in DOMAIN nodes |->
                            IF n = highlightTimers[i].node
                            THEN [nodes[n] EXCEPT !.highlighted = FALSE]
                            ELSE nodes[n]],
                        fileItems, cachedHeadings, highlightTimers')
    /\ last' = Did("highlightTimeout", NoFile, "")
    /\ UNCHANGED <<locateVars, fields, hostVars, startup, fileItems, locateButton, settings,
                   cachedHeadings, lastActiveMarkdownLeaf, tasks, switchedOff>>

\* a second passes; a timer that is due fires first
Tick ==
    /\ highlightTimers # <<>>
    /\ \A i \in 1..Len(highlightTimers) : highlightTimers[i].elapsed < HighlightSeconds
    /\ highlightTimers' = [i \in 1..Len(highlightTimers) |->
                              HighlightTimer(highlightTimers[i].node,
                                             highlightTimers[i].elapsed + 1)]
    /\ last' = Did("", NoFile, "")
    /\ UNCHANGED <<locateVars, fields, hostVars, startup, fileItems, nodes, locateButton, settings,
                   cachedHeadings, lastActiveMarkdownLeaf, tasks, switchedOff>>

(***************************************************************************)
(* The host: the metadata cache catching up, a file written, the tree      *)
(* computing the height of an item.                                        *)
(***************************************************************************)
\* the metadata cache of a markdown file changes
HostCacheUpdate(path, fileCache) ==
    /\ path \in DOMAIN metadataCache
    /\ metadataCache[path] # fileCache
    /\ metadataCache' = [metadataCache EXCEPT ![path] = fileCache]
    /\ last' = Did("", NoFile, "")
    /\ UNCHANGED <<locateVars, fields, vault, fileContent, explorerOpen, leaves, activeLeaf,
                   startup, fileItems, nodes, locateButton, settings, cachedHeadings,
                   lastActiveMarkdownLeaf, tasks, highlightTimers, switchedOff>>

\* a markdown file is written with another text; the vault raises modify
HostModify(file, text) ==
    /\ file.extension = "md"
    /\ fileContent[file.path] # text
    /\ Len(onFileModified(file)) <= MaxTasks
    /\ fileContent' = [fileContent EXCEPT ![file.path] = text]
    /\ tasks' = onFileModified(file)
    /\ last' = Did("modify", file, IF tasks' = tasks THEN "ignored" ELSE "scheduled")
    /\ UNCHANGED <<locateVars, fields, vault, metadataCache, explorerOpen, leaves, activeLeaf,
                   startup, fileItems, nodes, locateButton, settings, cachedHeadings,
                   lastActiveMarkdownLeaf, highlightTimers, switchedOff>>

\* the file explorer view comes into the workspace
HostOpensExplorer ==
    /\ ~explorerOpen
    /\ explorerOpen' = TRUE
    /\ last' = Did("", NoFile, "")
    /\ UNCHANGED <<locateVars, fields, vault, metadataCache, fileContent, leaves, activeLeaf,
                   startup, fileItems, nodes, locateButton, settings, cachedHeadings,
                   lastActiveMarkdownLeaf, tasks, highlightTimers, switchedOff>>

\* the tree gets its entry for a file it had none for
HostAddsItem(file) ==
    /\ file.path \notin DOMAIN fileItems
    /\ fileItems' = [p \in DOMAIN fileItems \cup {file.path} |->
                        IF p = file.path
                        THEN FileItem(FALSE, <<>>, 20, TRUE)
                        ELSE fileItems[p]]
    /\ last' = Did("", NoFile, "")
    /\ UNCHANGED <<locateVars, fields, hostVars, startup, nodes, locateButton, settings,
                   cachedHeadings, lastActiveMarkdownLeaf, tasks, highlightTimers,
                   switchedOff>>

\* the tree lays its items out anew and caches the height of each
HostLayout ==
    /\ \E p \in DOMAIN fileItems : ~fileItems[p].info.computed
    /\ fileItems' = [p \in DOMAIN fileItems |->
                        [fileItems[p] EXCEPT !.info = [height |-> 20, computed |-> TRUE]]]
    /\ last' = Did("", NoFile, "")
    /\ UNCHANGED <<locateVars, fields, hostVars, startup, nodes, locateButton, settings,
                   cachedHeadings, lastActiveMarkdownLeaf, tasks, highlightTimers,
                   switchedOff>>

(***************************************************************************)
(* The cursor locator on its own: arrays sorted by line, every target.     *)
(***************************************************************************)
\* the arrays of n entries sorted ascending by line (lines may repeat)
SortedArraysOfLen(n) ==
    {[i \in 1..n |-> HeadingEntry("entry", 1, lineOf[i])] :
        lineOf \in {l \in [1..n -> 0..MaxLine] : \A i \in 1..n - 1 : l[i] <= l[i + 1]}}

SortedArrays == UNION {SortedArraysOfLen(n) : n \in 0..MaxLen}

\* nothing of the plugin or the host: the state of the specifications that
\* apply a pure function
NoSystem ==
    /\ vault = <<>>
    /\ metadataCache = <<>>
    /\ fileContent = <<>>
    /\ explorerOpen = FALSE
    /\ fileItems = <<>>
    /\ nodes = <<>>
    /\ leaves = <<>>
    /\ activeLeaf = NoLeaf
    /\ startup = "loaded"
    /\ locateButton = FALSE
    /\ settings = <<>>
    /\ cachedHeadings = <<>>
    /\ lastActiveMarkdownLeaf = NoLeaf
    /\ tasks = <<>>
    /\ highlightTimers = <<>>
    /\ last = Did("", NoFile, "")
    /\ switchedOff = FALSE
    /\ fields = <<>>

NoLocate ==
    /\ headingArray = <<>>
    /\ target = 0
    /\ closestLine = NotCalled

InitLocate ==
    /\ headingArray \in SortedArrays
    /\ target \in 0..MaxLine + 1
    /\ closestLine = NotCalled
    /\ NoSystem

\* a call of findClosestLineOnOrAbove(headingArray, target)
Locate ==
    /\ closestLine = NotCalled
    /\ closestLine' = findClosestLineOnOrAbove(headingArray, target)
    /\ UNCHANGED <<headingArray, target, systemVars>>

NextLocate == Locate

SpecLocate == InitLocate /\ [][NextLocate]_vars

\* C1: for an array sorted ascending by line and a target, the call returns an
\* entry of the array whose line is the greatest line of the array that is not
\* above the target, and returns null exactly when the array is empty or every
\* entry's line is above the target.
C1_NearestOnOrAbove ==
    closestLine # NotCalled =>
        LET onOrAbove == {i \in 1..Len(headingArray) : headingArray[i].line <= target}
        IN  /\ closestLine = NoEntry <=> onOrAbove = {}
            /\ closestLine # NoEntry =>
                   /\ closestLine \in onOrAbove
                   /\ \A i \in onOrAbove :
                          headingArray[i].line <= headingArray[closestLine].line

\* a call that returned an entry that is neither the first nor the last of the
\* array, with entries above the target behind it
C1_Witness ==
    /\ closestLine \notin {NotCalled, NoEntry}
    /\ Len(headingArray) = MaxLen
    /\ 1 < closestLine /\ closestLine < Len(headingArray)
    /\ headingArray[closestLine].line < target
    /\ headingArray[Len(headingArray)].line > target

\* C12: on a sorted array, the result does not go down as the target goes up:
\* for targets t1 <= t2, if the call for t1 returns an entry then the call for
\* t2 returns an entry too, whose line is not below that of the entry for t1.
\* The call made is compared with the call for every other target.
C12_ResultMonotonicInTarget ==
    closestLine # NotCalled =>
        \A other \in 0..MaxLine + 1 :
            LET otherLine == findClosestLineOnOrAbove(headingArray, other)
                t1Result == IF other <= target THEN otherLine ELSE closestLine
                t2Result == IF other <= target THEN closestLine ELSE otherLine
            IN  t1Result # NoEntry =>
                    /\ t2Result # NoEntry
                    /\ headingArray[t1Result].line <= headingArray[t2Result].line

\* a call that returned an entry while the call for a lower target returns an
\* entry of a lower line and the call for a still lower target returns null
C12_Witness ==
    /\ closestLine \notin {NotCalled, NoEntry}
    /\ \E t1 \in 0..target - 1 :
          LET r1 == findClosestLineOnOrAbove(headingArray, t1)
          IN  /\ r1 # NoEntry
              /\ headingArray[r1].line < headingArray[closestLine].line
    /\ \E t0 \in 0..target - 1 : findClosestLineOnOrAbove(headingArray, t0) = NoEntry

(***************************************************************************)
(* The heading index builder on one file: the change watcher rebuilding a  *)
(* markdown file, one rebuild at a time, over the inputs below.            *)
(***************************************************************************)
NoteFile == File("a.md", "a.md", "md")
ImageFile == File("p.png", "p.png", "png")

\* the text the host gives a structural heading of each level
LevelText == <<"H1", "H2", "H3", "H4", "H5", "H6">>

\* the heading lists of the host's cache: at most MaxHeadings headings of levels
\* 1..6, in the order of the document, one to a line
HeadingListsOfLen(n) ==
    {[i \in 1..n |-> CachedHeading(LevelText[at[i][2]], at[i][2], at[i][1])] :
        at \in {a \in [1..n -> (0..MaxLines - 1) \X (1..6)] :
                   \A i \in 1..n - 1 : a[i][1] < a[i + 1][1]}}

HeadingLists == UNION {HeadingListsOfLen(n) : n \in 0..MaxHeadings}

\* the texts of a file: 1..MaxLines lines (split gives at least one line)
Texts == UNION {[1..n -> Lines] : n \in 1..MaxLines}

RegexSetting(pattern, level) == [pattern |-> pattern, level |-> level]

\* DEFAULT_SETTINGS.regexArray, lines 22-27
DefaultRegexArray == <<RegexSetting(PatternBold, 7)>>

RegexSettings ==
    {RegexSetting(PatternBold, 7), RegexSetting(PatternTodoGroup, 3),
     RegexSetting(PatternTodoPlain, 7), RegexSetting(PatternEmpty, 1),
     RegexSetting(PatternMalformed, 7)}

RegexArrays == UNION {[1..n -> RegexSettings] : n \in 0..MaxPatterns}

\* HeadingPluginSettings, lines 3-12; show[L] is showHeadingL
Settings(showHeadings, show, regexArray) ==
    [showHeadings |-> showHeadings, show |-> show, regexArray |-> regexArray]

\* the level flags with the levels of hidden off
ShowAllBut(hidden) == [L \in 1..6 |-> L \notin hidden]

\* DEFAULT_SETTINGS, lines 14-28
DEFAULT_SETTINGS == Settings(TRUE, ShowAllBut({}), DefaultRegexArray)

\* all flags on, all off, one off, one on
FlagChoices ==
    {ShowAllBut({}), ShowAllBut(1..6)}
    \cup {ShowAllBut({L}) : L \in 1..6}
    \cup {ShowAllBut((1..6) \ {L}) : L \in 1..6}

\* inputs that vary the structural headings and the level flags
LevelInputs ==
    [cache : {NoFileCache} \cup {FileCache(hs) : hs \in HeadingLists},
     text : {<<LineBold>>, <<LinePlain, LineTodo>>},
     settings : {Settings(TRUE, show, ra) :
                    show \in FlagChoices,
                    ra \in {<<>>, DefaultRegexArray, <<RegexSetting(PatternTodoGroup, 3)>>}}]

\* inputs that vary the text and the patterns
PatternInputs ==
    [cache : {NoFileCache, FileCache(<<CachedHeading("H1", 1, 0)>>),
              FileCache(<<CachedHeading("H3", 3, 1)>>)},
     text : Texts,
     settings : {Settings(TRUE, ShowAllBut({}), ra) : ra \in RegexArrays}]

\* inputs with the heading display disabled
DisabledInputs ==
    [cache : {FileCache(<<CachedHeading("H1", 1, 0)>>)},
     text : {<<LineBold>>},
     settings : {Settings(FALSE, ShowAllBut({}), ra) : ra \in {<<>>, DefaultRegexArray}}]

BuildInputs == LevelInputs \cup PatternInputs \cup DisabledInputs

\* a tree item as the host draws it: no heading container, its height computed
HostFileItem == FileItem(FALSE, <<>>, 20, TRUE)

InitBuild ==
    /\ NoLocate
    /\ vault = <<NoteFile, ImageFile>>
    /\ \E input \in BuildInputs :
          /\ metadataCache = (NoteFile.path :> input.cache) @@ (ImageFile.path :> NoFileCache)
          /\ fileContent = (NoteFile.path :> input.text) @@ (ImageFile.path :> <<"">>)
          /\ settings = input.settings
    /\ explorerOpen = TRUE
    /\ fileItems = [p \in Paths |-> HostFileItem]
    /\ nodes = <<>>
    /\ leaves = <<>>
    /\ activeLeaf = NoLeaf
    /\ startup = "ready"
    /\ locateButton = TRUE
    /\ cachedHeadings = [n \in Names |-> Absent]
    /\ lastActiveMarkdownLeaf = NoLeaf
    /\ tasks = <<>>
    /\ highlightTimers = <<>>
    /\ last = Did("", NoFile, "")
    /\ switchedOff = FALSE
    /\ fields = <<>>

\* an event while no rebuild is pending
BuildEvent ==
    /\ tasks = <<>>
    /\ \E kind \in {"modify", "rename"}, i \in 1..Len(vault) : VaultEvent(kind, vault[i])

NextBuild ==
    \/ BuildEvent
    \/ TimerFires(1)
    \/ WatcherReadDone(1)

SpecBuild == InitBuild /\ [][NextBuild]_vars

(***************************************************************************)
(* What the claims about the builder speak of.                             *)
(***************************************************************************)
\* an entry without its node
Plain(entry) == [entry EXCEPT !.uiElement = 0]

PlainSeq(array) == [i \in 1..Len(array) |-> Plain(array[i])]

Count(array, e) == Cardinality({i \in 1..Len(array) : array[i] = e})

\* the same entries, each as often, in any order
SameBag(a, b) ==
    /\ Len(a) = Len(b)
    /\ \A i \in 1..Len(a) : Count(a, a[i]) = Count(b, a[i])

SortedByLine(array) == \A i \in 1..Len(array) - 1 : array[i].line <= array[i + 1].line

\* the step that led here ended a rebuild of the change watcher that stored
\* the sequence it built
Rebuilt == last.op = "rebuild" /\ last.outcome = "ok"

\* the sequence that rebuild stored, without the nodes
Built == PlainSeq(cachedHeadings[last.file.name].array)

\* the inputs of that rebuild
StructuralOf(file) == metadataCache[file.path].headings

LinesOf(file) == fileContent[file.path]

\* the entries of the structural headings whose level flag is on
VisibleStructural(file) ==
    LET visible == SelectSeq(StructuralOf(file), LAMBDA h : settings.show[h.level])
    IN  [i \in 1..Len(visible) |->
            HeadingEntry(visible[i].heading, visible[i].level, visible[i].line)]

\* the entries the pattern matcher pushes for the file
PatternEntries(file) ==
    IF settings.regexArray = <<>>
    THEN <<>>
    ELSE matchedHeadings(LinesOf(file), settings.regexArray).headings

\* C7: the sequence built for a file holds a structural heading of level L
\* exactly when the flag of level L is on, and holds every entry of the pattern
\* matcher whatever the level flags are, also an entry of a level 1..6.
C7_LevelFlagsFilterStructuralOnly ==
    Rebuilt => SameBag(Built, VisibleStructural(last.file) \o PatternEntries(last.file))

\* a sequence built with a structural heading of level 3 dropped, another
\* structural heading kept, and a pattern match of level 3 kept
C7_Witness ==
    /\ Rebuilt
    /\ ~settings.show[3]
    /\ \E i \in 1..Len(StructuralOf(last.file)) : StructuralOf(last.file)[i].level = 3
    /\ \E i \in 1..Len(Built) : Built[i].level # 3 /\ Built[i].text \in {"H1", "H2", "H4", "H5", "H6"}
    /\ \E i \in 1..Len(Built) : Built[i].level = 3 /\ Built[i].text = "TODO: x"

\* the entries of line l, in the order of array
AtLine(array, l) == SelectSeq(array, LAMBDA e : e.line = l)

\* what the builder sorts: the structural entries, then the pattern entries
BeforeSort(file) == mappedHeadings(StructuralOf(file), settings) \o PatternEntries(file)

\* C8: every sequence stored in the index is sorted ascending by line, with and
\* without patterns; the entries of one line keep the order they had before the
\* sort, so a structural heading precedes a pattern match of its line and both
\* are kept.
C8_StoredSortedStable ==
    /\ \A n \in DOMAIN cachedHeadings : SortedByLine(cachedHeadings[n].array)
    /\ Rebuilt => \A l \in 0..MaxLines : AtLine(Built, l) = AtLine(BeforeSort(last.file), l)

\* a sequence stored with a pattern match on the line before a structural
\* heading, and a second pattern match on the heading's own line, behind it
C8_Witness ==
    /\ Rebuilt
    /\ Len(Built) >= 3
    /\ \E i \in 1..Len(Built) - 2 :
          /\ Built[i].text = "Bold" /\ Built[i].line = 0
          /\ Built[i + 1].text = "H3" /\ Built[i + 1].line = 1
          /\ Built[i + 2].text = "TODO: x" /\ Built[i + 2].line = 1

\* the text the specification gives the entry of a match: the first capture
\* group when the pattern has one, the whole match when it has none
SpecifiedText(matches) == IF Len(matches) >= 2 THEN matches[2] ELSE matches[1]

\* the (line, pattern) pairs, line by line, and the entry specified for each
\* pair that matches
SpecifiedMatches(fileLines, regexArray) ==
    LET n == Len(regexArray)
        pairs == [k \in 1..Len(fileLines) * n |->
                     [index |-> (k - 1) \div n, regexSetting |-> regexArray[((k - 1) % n) + 1]]]
        matching == SelectSeq(pairs, LAMBDA pr :
                        RegExpMatch(pr.regexSetting.pattern, fileLines[pr.index + 1]).found)
    IN  [k \in 1..Len(matching) |->
            HeadingEntry(
                SpecifiedText(RegExpMatch(matching[k].regexSetting.pattern,
                                          fileLines[matching[k].index + 1]).array),
                matching[k].regexSetting.level,
                matching[k].index)]

\* C5: for every (line, pattern) pair where the pattern matches the line there
\* is exactly one entry at that line with the pattern's level, whose text is
\* the first capture group's text when the pattern has one and the whole match
\* when it has none; lines that do not match give no entry.
C5_CaptureGroupOrWholeMatch ==
    (Rebuilt /\ settings.regexArray # <<>>) =>
        SameBag(Built, VisibleStructural(last.file)
                       \o SpecifiedMatches(LinesOf(last.file), settings.regexArray))

\* the patterns of regexArray that compile
Compiling(regexArray) == SelectSeq(regexArray, LAMBDA r : RegExpCompiles(r.pattern))

\* C6: a pattern that does not compile is treated as matching nothing and
\* aborts nothing: the rebuild of the file completes with the structural
\* headings and the matches of the other patterns.
C6_MalformedPatternMatchesNothing ==
    (/\ last.op = "rebuild"
     /\ last.outcome \in {"ok", "threw"}
     /\ Compiling(settings.regexArray) # settings.regexArray) =>
        /\ last.outcome = "ok"
        /\ SameBag(Built, VisibleStructural(last.file)
                          \o matchedHeadings(LinesOf(last.file),
                                             Compiling(settings.regexArray)).headings)

\* every tree item's cached height is marked not computed
HeightsInvalidated ==
    \A p \in DOMAIN fileItems :
        fileItems[p].info.height = 0 /\ ~fileItems[p].info.computed

\* C4: a modify or rename event on a markdown file received while the display
\* is enabled schedules a rebuild; when the rebuild it scheduled ends, the
\* builder has run for the file, the file's index entry is what the builder
\* produced and the height of every tree item is invalidated; an event for
\* another file, or received while the display is disabled, schedules nothing.
C4_EventRebuildsAndInvalidates ==
    /\ last.op \in {"modify", "rename"} =>
          (last.outcome = "scheduled"
              <=> (settings.showHeadings /\ last.file.extension = "md"))
    /\ (last.op = "rebuild" /\ last.outcome # "reading") =>
          /\ last.outcome \in {"ok", "undefined"}
          /\ last.outcome = "ok" =>
                 cachedHeadings[last.file.name].state = "array"
          /\ last.outcome = "undefined" =>
                 cachedHeadings[last.file.name] = StoredUndefined
          /\ HeightsInvalidated

(***************************************************************************)
(* The plugin in a vault of one markdown file and an image: start-up,      *)
(* the change watcher, the toggles and the recalculation, with the host    *)
(* changing the files and their cache entries.                             *)
(***************************************************************************)
\* the cache entries the host moves a file between
VaultCaches == {NoFileCache, FileCache(<<>>), FileCache(<<CachedHeading("H1", 1, 0)>>)}

\* the texts the host moves a file between
VaultTexts == {<<LinePlain>>, <<LineBold>>}

\* the plugin loaded (onload has run) into a vault whose layout is not ready
Loaded ==
    /\ explorerOpen = TRUE
    /\ fileItems = [p \in Paths |-> HostFileItem]
    /\ nodes = <<>>
    /\ startup = "loaded"
    /\ locateButton = FALSE
    /\ cachedHeadings = [n \in Names |-> Absent]
    /\ lastActiveMarkdownLeaf = NoLeaf
    /\ tasks = <<>>
    /\ highlightTimers = <<>>
    /\ last = Did("", NoFile, "")
    /\ switchedOff = FALSE
    /\ fields = <<>>

\* a vault of one note with one structural heading and no pattern line, and
\* an image, under the default settings
OneNoteVault ==
    /\ NoLocate
    /\ vault = <<NoteFile, ImageFile>>
    /\ metadataCache = [p \in Paths |->
                           IF p = ImageFile.path
                           THEN NoFileCache
                           ELSE FileCache(<<CachedHeading("H1", 1, 0)>>)]
    /\ fileContent = [p \in Paths |-> IF p = ImageFile.path THEN <<"">> ELSE <<LinePlain>>]
    /\ settings = DEFAULT_SETTINGS
    /\ Loaded

Init ==
    /\ OneNoteVault
    /\ leaves = <<>>
    /\ activeLeaf = NoLeaf

\* the plugin started on OneNoteVault and idle: the layout is ready and the
\* initialisation has drawn and indexed the heading of the note
Started ==
    /\ NoLocate
    /\ vault = <<NoteFile, ImageFile>>
    /\ metadataCache = [p \in Paths |->
                           IF p = ImageFile.path
                           THEN NoFileCache
                           ELSE FileCache(<<CachedHeading("H1", 1, 0)>>)]
    /\ fileContent = [p \in Paths |-> IF p = ImageFile.path THEN <<"">> ELSE <<LinePlain>>]
    /\ settings = DEFAULT_SETTINGS
    /\ explorerOpen = TRUE
    /\ fileItems = [p \in Paths |->
                       IF p = NoteFile.path
                       THEN FileItem(TRUE, <<1>>, 0, FALSE)
                       ELSE FileItem(FALSE, <<>>, 0, FALSE)]
    /\ nodes = [n \in {1} |-> HeadingItem(HeadingEntry("H1", 1, 0))]
    /\ startup = "ready"
    /\ locateButton = TRUE
    /\ cachedHeadings = [n \in Names |->
                            IF n = NoteFile.name
                            THEN Stored(<<[HeadingEntry("H1", 1, 0) EXCEPT !.uiElement = 1]>>)
                            ELSE Absent]
    /\ lastActiveMarkdownLeaf = NoLeaf
    /\ tasks = <<>>
    /\ highlightTimers = <<>>
    /\ last = Did("init", NoFile, "done")
    /\ switchedOff = FALSE
    /\ fields = <<>>

\* start-up, the change watcher and the master flag, the files as they are
Next ==
    \/ LayoutReady
    \/ \E i \in 1..Len(tasks) : InitNext(i)
    \/ \E i \in 1..Len(tasks) : InitReadDone(i)
    \/ \E kind \in {"modify", "rename"}, i \in 1..Len(vault) : VaultEvent(kind, vault[i])
    \/ \E i \in 1..Len(tasks) : TimerFires(i)
    \/ \E i \in 1..Len(tasks) : WatcherReadDone(i)
    \/ \E source \in {"command", "settingsTab"} : ToggleShowHeadings(source)
    \/ \E i \in 1..Len(tasks) : SaveDone(i)
    \/ Recalculate
    \/ HostLayout

Spec == Init /\ [][Next]_vars

(***************************************************************************)
(* The redraws of one file: the markdown file is written and its cache     *)
(* entry changes while rebuilds of it are pending, and the Show heading 1  *)
(* flag is toggled, which initialises again; the display stays enabled.    *)
(***************************************************************************)
NextWatch ==
    \/ \E i \in 1..Len(vault) : VaultEvent("rename", vault[i])
    \/ \E text \in VaultTexts : HostModify(NoteFile, text)
    \/ \E fc \in VaultCaches : HostCacheUpdate(NoteFile.path, fc)
    \/ \E i \in 1..Len(tasks) : TimerFires(i)
    \/ \E i \in 1..Len(tasks) : WatcherReadDone(i)
    \/ ToggleShowLevel(1)
    \/ \E i \in 1..Len(tasks) : SaveDone(i)
    \/ \E i \in 1..Len(tasks) : InitNext(i)
    \/ \E i \in 1..Len(tasks) : InitReadDone(i)

InitWatch ==
    /\ Started
    /\ leaves = <<>>
    /\ activeLeaf = NoLeaf

SpecWatch == InitWatch /\ [][NextWatch]_vars

(***************************************************************************)
(* Highlight Location: a markdown editor on the note and a markdown editor *)
(* without a file; the note's cache entry changes and the note is rebuilt  *)
(* while the button is used and the seconds pass.                          *)
(***************************************************************************)
NoteLeaf == 1
EmptyLeaf == 2

InitHighlight ==
    /\ Started
    /\ leaves = <<Leaf("markdown", NoteFile, 0), Leaf("markdown", NoFile, 0)>>
    /\ activeLeaf = NoLeaf

\* the note is modified, no rebuild of it pending
NoteModified ==
    /\ tasks = <<>>
    /\ VaultEvent("modify", NoteFile)

NextHighlight ==
    \/ NoteModified
    \/ \E i \in 1..Len(tasks) : TimerFires(i)
    \/ \E i \in 1..Len(tasks) : WatcherReadDone(i)
    \/ \E fc \in VaultCaches : HostCacheUpdate(NoteFile.path, fc)
    \/ \E leaf \in {NoteLeaf, EmptyLeaf} : ActiveLeafChange(leaf)
    \/ HighlightRequest
    \/ \E i \in 1..Len(highlightTimers) : HighlightTimeout(i)
    \/ Tick

SpecHighlight == InitHighlight /\ [][NextHighlight]_vars

(***************************************************************************)
(* Claims about the redraw of one file and about the master flag.          *)
(***************************************************************************)
\* the children of a container are one node per entry of headings, in order
OneNodePerEntry(children, headings) ==
    /\ Len(children) = Len(headings)
    /\ \A i \in 1..Len(children) :
          /\ children[i] \in DOMAIN nodes
          /\ nodes[children[i]].textContent = headings[i].text
          /\ nodes[children[i]].marginLeft = (headings[i].level - 1) * MarginMultiplier

\* C2: after a call of createClickableHeadings(file, headings) has returned,
\* whatever the sequence it was given (the empty one too), the tree entry of
\* the file has its heading container, and the children of the container are
\* one node per entry of the sequence, in its order, so that no node of an
\* earlier redraw of the file is left.
C2_RedrawLeavesOneNodePerEntry ==
    last.drew =>
        /\ fileItems[last.file.path].hasContainer
        /\ OneNodePerEntry(fileItems[last.file.path].children, last.given)

\* what the tree shows for a file: the text and the indent of each child of
\* its heading container, in order
Shown(items, allNodes, path) ==
    [i \in 1..Len(items[path].children) |->
        [textContent |-> allNodes[items[path].children[i]].textContent,
         marginLeft |-> allNodes[items[path].children[i]].marginLeft]]

\* no node is a child twice
NoDuplicateNode(children) ==
    \A i, j \in 1..Len(children) : children[i] = children[j] => i = j

\* C11: the redraw is idempotent: where a redraw of a file has returned,
\* redrawing the file once more with the same heading sequence leaves what the
\* first redraw left (as many heading nodes, with the same texts and indents),
\* and the file then has its one heading container, with no node twice.
C11_RedrawTwiceAsOnce ==
    last.drew =>
        LET path == last.file.path
            again == createClickableHeadings(last.file, last.given, fileItems, nodes)
        IN  /\ ~again.threw
            /\ Shown(again.items, again.nodes, path) = Shown(fileItems, nodes, path)
            /\ again.items[path].hasContainer
            /\ NoDuplicateNode(again.items[path].children)

\* the step ended an operation that builds, rebuilds or toggles the display:
\* an initialisation with the display enabled came to its end, an
\* initialisation with the display disabled ran (called at start-up, by
\* saveSettings or by the recalculation), or a rebuild of the change watcher
\* stored its result
DisplayOperationCompleted ==
    \/ last.op = "init" /\ last.outcome = "done"
    \/ last.op \in {"layoutReady", "saved", "recalculate"} /\ ~settings.showHeadings
    \/ last.op = "rebuild" /\ last.outcome \in {"ok", "undefined"}

\* C16: when an initialisation (display enabled or disabled), a recalculation
\* or a rebuild of the change watcher has completed, the height record of
\* every tree item is marked not computed, with height 0.
C16_CompletedOperationInvalidatesHeights ==
    DisplayOperationCompleted => HeightsInvalidated

\* a recalculation has run with the display off, after the layout was ready
C16_Witness ==
    /\ last.op = "recalculate"
    /\ ~settings.showHeadings
    /\ startup = "ready"
    /\ HeightsInvalidated

\* C3: once the display has been switched off and the recalculation this
\* started has completed, and as long as it is not switched on again, no
\* container has a heading node, whatever was pending at the switch.
C3_SwitchedOffShowsNoHeadingNode ==
    switchedOff => \A p \in DOMAIN fileItems : fileItems[p].children = <<>>

(***************************************************************************)
(* Claims about Highlight Location.                                        *)
(***************************************************************************)
\* the file has no indexed headings: no index entry, an entry stored as
\* undefined, or an empty array
NoIndexedHeadings(file) ==
    \/ cachedHeadings[file.name].state # "array"
    \/ cachedHeadings[file.name].array = <<>>

\* what the request that led to this state had nothing to work on
NothingToHighlight ==
    \/ lastActiveMarkdownLeaf = NoLeaf
    \/ leaves[lastActiveMarkdownLeaf].file = NoFile
    \/ NoIndexedHeadings(leaves[lastActiveMarkdownLeaf].file)

\* C9: a Highlight Location request made when no markdown editor was ever
\* focused, or the focused editor has no file, or the focused file has no
\* indexed headings (no entry, an entry stored as undefined, or an empty one)
\* does nothing: it asks no reveal of the tree, highlights nothing, starts no
\* timer and raises no error.
C9_RequestWithNothingToHighlightIsNoOp ==
    (last.op = "highlight" /\ NothingToHighlight) =>
        /\ ~last.revealed
        /\ last.outcome \notin {"threw", "highlighted"}

\* C10: the node of every request stays highlighted until 2 seconds have
\* passed since that request, also when an earlier request for the same node
\* is less than 2 seconds older; and a node no request is waiting on any more
\* is not highlighted.
C10_HighlightLastsTwoSeconds ==
    /\ \A i \in 1..Len(highlightTimers) :
          highlightTimers[i].elapsed < HighlightSeconds =>
              nodes[highlightTimers[i].node].highlighted
    /\ \A n \in DOMAIN nodes :
          (\A i \in 1..Len(highlightTimers) : highlightTimers[i].node # n) =>
              ~nodes[n].highlighted

(***************************************************************************)
(* The focus: a markdown editor on the note, a markdown editor without a   *)
(* file and an image view; any of them, or none, is active when the plugin *)
(* loads, and the focus moves before and after the layout is ready.        *)
(***************************************************************************)
ImageLeaf == 3

InitFocus ==
    /\ OneNoteVault
    /\ leaves = <<Leaf("markdown", NoteFile, 0), Leaf("markdown", NoFile, 0),
                  Leaf("image", ImageFile, 0)>>
    /\ activeLeaf \in {NoLeaf, NoteLeaf, EmptyLeaf, ImageLeaf}

NextFocus ==
    \/ LayoutReady
    \/ \E i \in 1..Len(tasks) : InitNext(i)
    \/ \E i \in 1..Len(tasks) : InitReadDone(i)
    \/ \E leaf \in {NoLeaf, NoteLeaf, EmptyLeaf, ImageLeaf} : ActiveLeafChange(leaf)
    \/ HighlightRequest
    \/ \E i \in 1..Len(highlightTimers) : HighlightTimeout(i)
    \/ Tick

SpecFocus == InitFocus /\ [][NextFocus]_vars

\* the leaf is one with a markdown view
IsMarkdownLeaf(leaf) == leaf # NoLeaf /\ leaves[leaf].viewType = "markdown"

\* C13: the leaf Highlight Location uses is the last leaf with a markdown view
\* that the focus moved to, or the one recorded when the layout was ready if
\* the focus moved to none.  Step by step: a focus change to a leaf with a
\* markdown view makes that leaf the one used; a focus change to another leaf
\* or to no leaf leaves it as it is; the layout becoming ready records the
\* active leaf if its view is a markdown view; no other step changes it.
C13_LastActiveMarkdownLeafTracksFocus ==
    [][ /\ activeLeaf' # activeLeaf =>
              lastActiveMarkdownLeaf' = IF IsMarkdownLeaf(activeLeaf')
                                        THEN activeLeaf'
                                        ELSE lastActiveMarkdownLeaf
        /\ (activeLeaf' = activeLeaf /\ startup = "loaded" /\ startup' = "ready") =>
              lastActiveMarkdownLeaf' = IF IsMarkdownLeaf(activeLeaf)
                                        THEN activeLeaf
                                        ELSE lastActiveMarkdownLeaf
        /\ (activeLeaf' = activeLeaf /\ startup' = startup) =>
              lastActiveMarkdownLeaf' = lastActiveMarkdownLeaf
      ]_vars

\* the focus went from the editor of the note to the image and a request was
\* then made on the note
C13_Witness ==
    /\ startup = "ready"
    /\ activeLeaf = ImageLeaf
    /\ lastActiveMarkdownLeaf = NoteLeaf
    /\ last.op = "highlight"
    /\ last.file = NoteFile

(***************************************************************************)
(* Start-up with the file explorer not yet in the workspace: the layout    *)
(* becomes ready and the plugin initialises before or after the explorer   *)
(* has come, while the note is modified.                                   *)
(***************************************************************************)
InitRetry ==
    /\ NoLocate
    /\ vault = <<NoteFile, ImageFile>>
    /\ metadataCache = [p \in Paths |->
                           IF p = ImageFile.path
                           THEN NoFileCache
                           ELSE FileCache(<<CachedHeading("H1", 1, 0)>>)]
    /\ fileContent = [p \in Paths |-> IF p = ImageFile.path THEN <<"">> ELSE <<LinePlain>>]
    /\ settings = DEFAULT_SETTINGS
    /\ explorerOpen = FALSE
    /\ fileItems = [p \in Paths |-> HostFileItem]
    /\ nodes = <<>>
    /\ leaves = <<>>
    /\ activeLeaf = NoLeaf
    /\ startup = "loaded"
    /\ locateButton = FALSE
    /\ cachedHeadings = [n \in Names |-> Absent]
    /\ lastActiveMarkdownLeaf = NoLeaf
    /\ tasks = <<>>
    /\ highlightTimers = <<>>
    /\ last = Did("", NoFile, "")
    /\ switchedOff = FALSE
    /\ fields = <<>>

NextRetry ==
    \/ LayoutReady
    \/ HostOpensExplorer
    \/ \E i \in 1..Len(tasks) : InitNext(i)
    \/ \E i \in 1..Len(tasks) : InitReadDone(i)
    \/ \E text \in VaultTexts : HostModify(NoteFile, text)
    \/ \E i \in 1..Len(tasks) : TimerFires(i)
    \/ \E i \in 1..Len(tasks) : WatcherReadDone(i)
    \/ Recalculate

SpecRetry == InitRetry /\ [][NextRetry]_vars

\* an attempt to initialise is pending on its timer
RetryScheduled == \E i \in 1..Len(tasks) : tasks[i].kind = "timedRetry"

\* C14: when the initialisation has failed for want of the file explorer, it
\* is tried again: the next attempt is scheduled, on its 1-second timer (up to
\* the bound on the attempts, a notice being shown once past it).
C14_FailedInitialisationIsRetried ==
    (last.op = "init" /\ last.outcome = "threw" /\ ~explorerOpen) => RetryScheduled

(***************************************************************************)
(* Two notes, the tree without an entry for the first of them when the     *)
(* plugin loads: the plugin initialises and the notes are modified, before *)
(* or after the tree has got the entry.                                    *)
(***************************************************************************)
OtherFile == File("b.md", "b.md", "md")

InitMissing ==
    /\ NoLocate
    /\ vault = <<NoteFile, OtherFile>>
    /\ metadataCache = [p \in Paths |-> FileCache(<<CachedHeading("H1", 1, 0)>>)]
    /\ fileContent = [p \in Paths |-> <<LinePlain>>]
    /\ settings = DEFAULT_SETTINGS
    /\ explorerOpen = TRUE
    /\ fileItems = [p \in {OtherFile.path} |-> HostFileItem]
    /\ nodes = <<>>
    /\ leaves = <<>>
    /\ activeLeaf = NoLeaf
    /\ startup = "loaded"
    /\ locateButton = FALSE
    /\ cachedHeadings = [n \in Names |-> Absent]
    /\ lastActiveMarkdownLeaf = NoLeaf
    /\ tasks = <<>>
    /\ highlightTimers = <<>>
    /\ last = Did("", NoFile, "")
    /\ switchedOff = FALSE
    /\ fields = <<>>

NextMissing ==
    \/ LayoutReady
    \/ HostAddsItem(NoteFile)
    \/ \E i \in 1..Len(tasks) : InitNext(i)
    \/ \E i \in 1..Len(tasks) : InitReadDone(i)
    \/ \E i \in 1..Len(vault) : VaultEvent("modify", vault[i])
    \/ \E i \in 1..Len(tasks) : TimerFires(i)
    \/ \E i \in 1..Len(tasks) : WatcherReadDone(i)

SpecMissing == InitMissing /\ [][NextMissing]_vars

\* the initialisation started when the layout was ready is over
InitOver ==
    /\ startup = "ready"
    /\ \A i \in 1..Len(tasks) : tasks[i].kind \notin {"init", "initRead"}

\* C15: a tree without an entry for a file fails the redraw of that file only:
\* when the initialisation is over, the other note is indexed and drawn and
\* the heights are invalidated; and a change event for the other note is
\* processed, its rebuild ending with the note indexed.
C15_MissingTreeEntryFailsOneFileOnly ==
    /\ InitOver =>
          /\ cachedHeadings[OtherFile.name].state = "array"
          /\ fileItems[OtherFile.path].children # <<>>
          /\ HeightsInvalidated
    /\ (last.op = "rebuild" /\ last.file = OtherFile /\ last.outcome # "reading") =>
          /\ last.outcome = "ok"
          /\ cachedHeadings[OtherFile.name].state = "array"

(***************************************************************************)
(* The pattern fields of the settings tab: fields are added, edited and    *)
(* deleted while the note is modified and rebuilt.                         *)
(***************************************************************************)
\* the texts typed into a pattern field
TypedPatterns == {PatternBold, PatternTodoPlain}

\* the values the slider of a pattern field is moved to
SliderLevels == {1, 7}

\* the note with a bold line under its heading, before the layout is ready
InitSettings ==
    /\ NoLocate
    /\ vault = <<NoteFile, ImageFile>>
    /\ metadataCache = [p \in Paths |->
                           IF p = ImageFile.path
                           THEN NoFileCache
                           ELSE FileCache(<<CachedHeading("H1", 1, 0)>>)]
    /\ fileContent = [p \in Paths |->
                         IF p = ImageFile.path THEN <<"">> ELSE <<LinePlain, LineBold>>]
    /\ settings = DEFAULT_SETTINGS
    /\ leaves = <<>>
    /\ activeLeaf = NoLeaf
    /\ Loaded

\* the user works in the settings tab, nothing of an earlier change pending
SettingsTabUsed ==
    /\ tasks = <<>>
    /\ \/ DisplaySettingsTab
       \/ AddPatternField
       \/ \E f \in 1..Len(fields), value \in TypedPatterns : EditPatternText(f, value)
       \/ \E f \in 1..Len(fields), value \in SliderLevels : MovePatternSlider(f, value)
       \/ \E f \in 1..Len(fields) : DeletePattern(f)

NextSettings ==
    \/ LayoutReady
    \/ SettingsTabUsed
    \/ \E i \in 1..Len(tasks) : SaveDone(i)
    \/ \E i \in 1..Len(tasks) : InitNext(i)
    \/ \E i \in 1..Len(tasks) : InitReadDone(i)

SpecSettings == InitSettings /\ [][NextSettings]_vars

\* the levels a RegexSetting may carry: the limits of the slider, line 584
SliderRange == 1..7

\* C18: every element of the configured pattern list carries a level that is
\* an integer in 1..7, and so does every entry of every sequence of the index,
\* after any sequence of the operations of the settings tab (add a pattern
\* field, edit the text of a pattern, move the slider of a pattern, delete a
\* pattern) and of the rebuilds that follow them.
C18_EveryLevelIsInSliderRange ==
    /\ \A i \in 1..Len(settings.regexArray) :
          settings.regexArray[i].level \in SliderRange
    /\ \A name \in DOMAIN cachedHeadings :
          \A i \in 1..Len(cachedHeadings[name].array) :
              cachedHeadings[name].array[i].level \in SliderRange

(***************************************************************************)
(* Rebuilds of the note that overlap, while the one pattern of the         *)
(* settings is edited.                                                     *)
(***************************************************************************)
InitOverlap ==
    /\ Started
    /\ leaves = <<>>
    /\ activeLeaf = NoLeaf

NextOverlap ==
    \/ \E text \in VaultTexts : HostModify(NoteFile, text)
    \/ VaultEvent("rename", NoteFile)
    \/ \E i \in 1..Len(tasks) : TimerFires(i)
    \/ \E i \in 1..Len(tasks) : WatcherReadDone(i)
    \/ DisplaySettingsTab
    \/ \E f \in 1..Len(fields), value \in {PatternBold, PatternMalformed} :
          EditPatternText(f, value)
    \/ \E i \in 1..Len(tasks) : SaveDone(i)
    \/ \E i \in 1..Len(tasks) : InitNext(i)
    \/ \E i \in 1..Len(tasks) : InitReadDone(i)

SpecOverlap == InitOverlap /\ [][NextOverlap]_vars

\* C17: rebuilds of one file may overlap; none is cancelled or skipped: each
\* rebuild that was scheduled and has ended has run to completion and has
\* written the index entry of its file, so that the entry is the sequence of
\* the rebuild that ended last, whichever event had scheduled it.
C17_EveryRebuildWritesTheIndex ==
    (last.op = "rebuild" /\ last.outcome # "reading") =>
        /\ last.outcome # "threw"
        /\ last.outcome = "ok" =>
               /\ cachedHeadings[last.file.name].state = "array"
               /\ PlainSeq(cachedHeadings[last.file.name].array) = PlainSeq(last.given)
        /\ last.outcome = "undefined" =>
               cachedHeadings[last.file.name] = StoredUndefined

(***************************************************************************)
(* Two notes of the same name in two folders, each open in a leaf: the     *)
(* plugin initialises, the notes are modified, the focus moves between the *)
(* leaves and the location is asked for.                                   *)
(***************************************************************************)
InboxNote == File("inbox/a.md", "a.md", "md")
ArchiveNote == File("archive/a.md", "a.md", "md")

InboxLeaf == 1
ArchiveLeaf == 2

InitSameName ==
    /\ NoLocate
    /\ vault = <<InboxNote, ArchiveNote>>
    /\ metadataCache = [p \in Paths |->
                           IF p = InboxNote.path
                           THEN FileCache(<<CachedHeading("Inbox", 1, 0)>>)
                           ELSE FileCache(<<CachedHeading("Archive", 1, 0)>>)]
    /\ fileContent = [p \in Paths |-> <<LinePlain>>]
    /\ settings = DEFAULT_SETTINGS
    /\ leaves = <<Leaf("markdown", InboxNote, 0), Leaf("markdown", ArchiveNote, 0)>>
    /\ activeLeaf = NoLeaf
    /\ Loaded

\* one of the two notes is modified, no rebuild pending
SameNameModified(file) ==
    /\ tasks = <<>>
    /\ VaultEvent("modify", file)

\* the location is asked for, the highlight of an earlier request over
LocationAsked ==
    /\ highlightTimers = <<>>
    /\ HighlightRequest

NextSameName ==
    \/ LayoutReady
    \/ \E i \in 1..Len(tasks) : InitNext(i)
    \/ \E i \in 1..Len(tasks) : InitReadDone(i)
    \/ \E i \in 1..Len(vault) : SameNameModified(vault[i])
    \/ \E i \in 1..Len(tasks) : TimerFires(i)
    \/ \E i \in 1..Len(tasks) : WatcherReadDone(i)
    \/ \E leaf \in {InboxLeaf, ArchiveLeaf} : ActiveLeafChange(leaf)
    \/ LocationAsked
    \/ \E i \in 1..Len(highlightTimers) : HighlightTimeout(i)
    \/ Tick

SpecSameName == InitSameName /\ [][NextSameName]_vars

\* C20: the sequence that Highlight location looks up for the focused file
\* was built from that file: its entries are those the builder makes of the
\* file's structural headings and lines, also when the vault has two
\* markdown files of one name in two folders, whatever the order in which
\* they were rebuilt.
C20_LookedUpSequenceIsOfFocusedFile ==
    (/\ last.op = "highlight"
     /\ last.revealed
     /\ cachedHeadings[last.file.name].state = "array") =>
        SameBag(Built, VisibleStructural(last.file) \o PatternEntries(last.file))

(***************************************************************************)
(* The index and the tree together.                                        *)
(***************************************************************************)
\* the nodes the entries of an index sequence refer to, in order
uiElements(array) == [i \in 1..Len(array) |-> array[i].uiElement]

\* C19: whenever no rebuild is in flight, for every file that has a sequence
\* in the index, the children of the heading container of the file are the
\* uiElement nodes of the entries of the sequence, in order; after any
\* sequence of change-watcher rebuilds (those producing an empty sequence
\* and overlapping ones too), level-flag changes and initialisations.
C19_ContainerShowsTheIndex ==
    tasks = <<>> =>
        \A f \in 1..Len(vault) :
            cachedHeadings[vault[f].name].state = "array" =>
                fileItems[vault[f].path].children =
                    uiElements(cachedHeadings[vault[f].name].array)

(***************************************************************************)
(* The note settles: it is written again and again, the host's cache       *)
(* catching up with each writing while a timer of the change watcher is    *)
(* still to fire; the timers fire in the order they were set and the reads *)
(* of the rebuilds return in any order.                                    *)
(***************************************************************************)
\* the cache of the note catches up within the delay of line 103
CacheCatchesUp(fileCache) ==
    /\ \E i \in 1..Len(tasks) : tasks[i].kind = "timer" /\ tasks[i].file = NoteFile
    /\ HostCacheUpdate(NoteFile.path, fileCache)

\* timers of one delay fire in the order they were set
TimerFiresInOrder(i) ==
    /\ \A j \in 1..(i - 1) : tasks[j].kind # "timer"
    /\ TimerFires(i)

InitSettle ==
    /\ Started
    /\ leaves = <<>>
    /\ activeLeaf = NoLeaf

NextSettle ==
    \/ \E text \in VaultTexts : HostModify(NoteFile, text)
    \/ \E fileCache \in VaultCaches : CacheCatchesUp(fileCache)
    \/ \E i \in 1..Len(tasks) : TimerFiresInOrder(i)
    \/ \E i \in 1..Len(tasks) : WatcherReadDone(i)

SpecSettle == InitSettle /\ [][NextSettle]_vars

\* the index entry of the note is what the builder makes of the note's
\* structural headings and lines as they are now
EntryIsOfPresentInputs ==
    IF ~metadataCache[NoteFile.path].cached
    THEN cachedHeadings[NoteFile.name] = StoredUndefined
    ELSE /\ cachedHeadings[NoteFile.name].state = "array"
         /\ SameBag(PlainSeq(cachedHeadings[NoteFile.name].array),
                    VisibleStructural(NoteFile) \o PatternEntries(NoteFile))

\* C21: once the change events have stopped and every scheduled rebuild has
\* completed, the display enabled all along, the index entry of the changed
\* file is what the builder produces from the host's final structural
\* headings and the file's final text, in whatever order the overlapping
\* rebuilds of the file read their inputs and completed.
C21_SettledIndexIsOfFinalInputs ==
    tasks = <<>> => EntryIsOfPresentInputs

\* the rebuild of task i completes in this step
RebuildCompletes(i) ==
    /\ tasks[i].kind = "read"
    /\ tasks' = RemoveAt(tasks, i)
    /\ last'.op = "rebuild"
    /\ last'.outcome = "ok"

\* a step writes the entry of the note only as a rebuild that completes, or
\* as one that finds no cache entry, and a rebuild that completes leaves the
\* entry the builder makes of the structural headings it kept across its
\* read and of the lines its read returned
EntryWrittenByCompletingRebuild ==
    /\ \A i \in 1..Len(tasks) :
          RebuildCompletes(i) =>
              /\ cachedHeadings'[NoteFile.name].state = "array"
              /\ SameBag(PlainSeq(cachedHeadings'[NoteFile.name].array),
                         tasks[i].mapped \o PatternEntries(NoteFile))
    /\ (cachedHeadings'[NoteFile.name] # cachedHeadings[NoteFile.name]) =>
          \/ \E i \in 1..Len(tasks) : RebuildCompletes(i)
          \/ /\ last'.op = "rebuild"
             /\ last'.outcome = "undefined"
             /\ ~metadataCache[NoteFile.path].cached

\* C21 as amended: the index entry of the file is written by the rebuild
\* that completes, from the structural headings the host's cache held when
\* the timer of that rebuild fired and the text of the file when its read
\* returned, and by nothing else but a rebuild that finds no cache entry;
\* so, once every scheduled rebuild has completed, the entry is of the
\* inputs of the rebuild that completed last.
C21_EntryIsOfLastCompletedRebuild == [][EntryWrittenByCompletingRebuild]_vars

\* every rebuild has completed, the one that completed last having taken
\* structural headings that are not the final ones
C21_Witness ==
    /\ tasks = <<>>
    /\ last.op = "rebuild"
    /\ last.outcome = "ok"
    /\ metadataCache[NoteFile.path].cached
    /\ ~SameBag(Built, VisibleStructural(NoteFile) \o PatternEntries(NoteFile))

====
